---- MODULE Spec2Model ----
(***************************************************************************)
(* Model of artyom/revproxy (src/revproxy.go): a host-based HTTP reverse   *)
(* proxy with a per-backend admission gate (a buffered channel used with a *)
(* non-blocking send) and a global limit on accepted connections.          *)
(*                                                                         *)
(* Strings of the program are sequences of one-character strings, so that  *)
(* strings.HasPrefix and url.Parse are computed, not assumed.              *)
(***************************************************************************)
EXTENDS Integers, Sequences, FiniteSets, TLC

VARIABLES
    pc,        \* position of main: "start", "built", "serving", "fatal"
    conf,      \* the Config value handed to NewRevProxy
    maxconn,   \* the -maxconn flag handed to Listen
    rp,        \* the *RevProxy main holds (NilRevProxy before / on error)
    err,       \* the error main last received ("nil" when none)
    maxIdle,   \* http.DefaultTransport.MaxIdleConnsPerHost
    chans,     \* heap of channels made by NewRevProxy: id -> [cap, len]
    sock,      \* the listening socket of the process: "unbound" or "bound"
    ln,        \* the limited listener main holds: [nil, cap, sem]
    apc,       \* position of the accept loop: "acquire" or "accept"
    conn,      \* client connections: "new", "pending", "live", "closed"
    req        \* per connection, the request its serving goroutine handles;
               \* once the handler has returned only the response remains

vars == <<pc, conf, maxconn, rp, err, maxIdle, chans, sock, ln, apc, conn, req>>

-----------------------------------------------------------------------------
(* Bounds of the model *)

MaxConnsBound == 2       \* largest MaxConnsPerBackend tried
MaxKeepBound == 1        \* largest MaxKeepalivesPerBackend tried
MaxConnBound == 3        \* largest -maxconn tried
NumConns == 3            \* client connections that may be dialed

Nil == "nil"

-----------------------------------------------------------------------------
(* Strings *)

KeyA == <<"a">>
KeyB == <<"b">>
HostC == <<"c">>
Keys == {KeyA, KeyB}
Hosts == Keys \cup {HostC}

DestTCP == <<"h", "t", "t", "p", ":", "/", "/", "h", ":", "9">>
DestUnix == <<"/", "s">>
DestBadHost == <<"h", "t", "t", "p", ":", "/", "/", "[", "h">>
DestNoScheme == <<":", "h">>
Dests == {DestTCP, DestUnix, DestBadHost, DestNoScheme}

HttpPrefix == <<"h", "t", "t", "p", ":", "/", "/">>

Letters == {"a", "b", "c", "h", "p", "s", "t"}
Digits == {"9"}

HasPrefix(s, p) == Len(s) >= Len(p) /\ SubSeq(s, 1, Len(p)) = p

\* strings.Index / strings.LastIndex for a one-character needle, 1-based,
\* 0 when absent.
Index(s, ch) ==
    IF \E i \in 1..Len(s) : s[i] = ch
    THEN CHOOSE i \in 1..Len(s) : s[i] = ch /\ \A j \in 1..(i-1) : s[j] # ch
    ELSE 0

LastIndex(s, ch) ==
    IF \E i \in 1..Len(s) : s[i] = ch
    THEN CHOOSE i \in 1..Len(s) : s[i] = ch /\ \A j \in (i+1)..Len(s) : s[j] # ch
    ELSE 0

Tail2(s, i) == SubSeq(s, i, Len(s))     \* s[i-1:] of Go, 1-based here

-----------------------------------------------------------------------------
(* net/url.Parse, for strings over Letters, Digits and ":", "/", "[", "]" *)

\* url.getScheme: [ok, scheme, rest]
RECURSIVE getSchemeFrom(_, _)
getSchemeFrom(s, i) ==
    IF i > Len(s) THEN [ok |-> TRUE, scheme |-> <<>>, rest |-> s]
    ELSE IF s[i] \in Letters THEN getSchemeFrom(s, i + 1)
    ELSE IF s[i] \in Digits
         THEN IF i = 1 THEN [ok |-> TRUE, scheme |-> <<>>, rest |-> s]
              ELSE getSchemeFrom(s, i + 1)
    ELSE IF s[i] = ":"
         THEN IF i = 1 THEN [ok |-> FALSE, scheme |-> <<>>, rest |-> <<>>]
              ELSE [ok |-> TRUE, scheme |-> SubSeq(s, 1, i - 1),
                    rest |-> Tail2(s, i + 1)]
    ELSE [ok |-> TRUE, scheme |-> <<>>, rest |-> s]

getScheme(s) == getSchemeFrom(s, 1)

\* url.validOptionalPort: "" or ":" followed by digits only
validOptionalPort(p) ==
    \/ p = <<>>
    \/ /\ p[1] = ":"
       /\ \A i \in 2..Len(p) : p[i] \in Digits

\* url.parseHost: is the authority's host part well formed
parseHostOk(host) ==
    IF HasPrefix(host, <<"[">>)
    THEN LET i == LastIndex(host, "]")
         IN  i # 0 /\ validOptionalPort(Tail2(host, i + 1))
    ELSE LET i == LastIndex(host, ":")
         IN  i = 0 \/ validOptionalPort(Tail2(host, i))

\* url.Parse: [ok, Scheme, Host, Path]
BadURL == [ok |-> FALSE, Scheme |-> <<>>, Host |-> <<>>, Path |-> <<>>]

urlParse(s) ==
    LET g == getScheme(s) IN
    IF ~g.ok THEN BadURL
    ELSE
    LET rest == g.rest IN
    IF ~HasPrefix(rest, <<"/">>) /\ g.scheme # <<>>
    THEN \* rootless path: kept opaque, no host
         [ok |-> TRUE, Scheme |-> g.scheme, Host |-> <<>>, Path |-> <<>>]
    ELSE IF /\ ~HasPrefix(rest, <<"/">>)
            /\ LET cut == Index(rest, "/")
                   seg == IF cut = 0 THEN rest ELSE SubSeq(rest, 1, cut - 1)
               IN  Index(seg, ":") # 0
    THEN BadURL   \* first path segment in URL cannot contain colon
    ELSE IF /\ (g.scheme # <<>> \/ ~HasPrefix(rest, <<"/", "/", "/">>))
            /\ HasPrefix(rest, <<"/", "/">>)
    THEN LET auth0 == Tail2(rest, 3)
             i == Index(auth0, "/")
             authority == IF i = 0 THEN auth0 ELSE SubSeq(auth0, 1, i - 1)
             path == IF i = 0 THEN <<>> ELSE Tail2(auth0, i)
         IN  IF parseHostOk(authority)
             THEN [ok |-> TRUE, Scheme |-> g.scheme, Host |-> authority,
                   Path |-> path]
             ELSE BadURL
    ELSE [ok |-> TRUE, Scheme |-> g.scheme, Host |-> <<>>, Path |-> rest]

-----------------------------------------------------------------------------
(* Config and Config.validate *)

Subsets(S) == SUBSET S

Mappings == UNION {[S -> Dests] : S \in Subsets(Keys)}

Configs ==
    [MaxConnsPerBackend : (-1)..MaxConnsBound,
     MaxKeepalivesPerBackend : (-1)..MaxKeepBound,
     Mapping : Mappings]

\* the configurations the proxy is served with: no key, one key, or both
\* keys mapped to the same TCP destination; the keepalive limit, which only
\* sizes the idle pool of the shared transport, is 0 (invalid) or 1
ServeConfigs ==
    {c \in Configs :
        /\ DOMAIN c.Mapping \in {{}, {KeyA}, Keys}
        /\ \A k \in DOMAIN c.Mapping : c.Mapping[k] = DestTCP
        /\ c.MaxKeepalivesPerBackend \in {0, 1}}

\* validate with its limits compared against 0 instead of 1
validateAllowsZero(c) ==
    IF c.MaxConnsPerBackend < 0 THEN "MaxConnsPerBackend is too low"
    ELSE IF c.MaxKeepalivesPerBackend < 0 THEN "MaxKeepalivesPerBackend is too low"
    ELSE IF Cardinality(DOMAIN c.Mapping) = 0 THEN "no backends provided"
    ELSE Nil

\* Config.validate: the error it returns, Nil for none
validate(c) ==
    IF c.MaxConnsPerBackend < 1 THEN "MaxConnsPerBackend is too low"
    ELSE IF c.MaxKeepalivesPerBackend < 1 THEN "MaxKeepalivesPerBackend is too low"
    ELSE IF Cardinality(DOMAIN c.Mapping) = 0 THEN "no backends provided"
    ELSE Nil

-----------------------------------------------------------------------------
(* NewRevProxy *)

EmptyMap == [k \in {} |-> Nil]

SharedTransport == [kind |-> "shared", dial |-> <<>>]

\* the custom http.Transport of a unix-socket backend: its Dial ignores the
\* network and address it is given and dials ("unix", v)
UnixTransport(v) == [kind |-> "unix", dial |-> v]

\* a Dial func that dials the address it is handed, as a unix socket
DialGivenAddr(t, network, addr) ==
    IF t.kind = "unix" THEN <<"unix", addr>> ELSE <<network, addr>>

\* what a transport dials when asked for a connection to (network, addr):
\* the Dial func of a unix-socket backend returns net.Dial("unix", v)
TransportDial(t, network, addr) ==
    IF t.kind = "unix" THEN <<"unix", t.dial>> ELSE <<network, addr>>

\* httputil.NewSingleHostReverseProxy(dst) with its Transport field set
ReverseProxy(dst, transport) == [target |-> dst, transport |-> transport]

\* a channel made one slot too large
MakeChanOneMore(n) == [cap |-> n + 1, len |-> 0]

\* make(chan struct{}, n): an empty buffered channel of capacity n
MakeChan(n) == [cap |-> n, len |-> 0]

\* one channel per destination instead of one per mapping item
ChanIdByDest(k, v) == v

\* identity of the channel made in the loop iteration for mapping item (k, v):
\* every iteration makes a fresh channel, and iterations are one per key
NewChanId(k, v) == k

\* the orders in which range may visit the keys of a map
Orders(S) ==
    {o \in [1..Cardinality(S) -> S] : \A i, j \in DOMAIN o : i # j => o[i] # o[j]}

\* a loop body that makes the gate of unix-socket backends only
LoopBodyNoTcpGate(c, k, acc) ==
    LET v == c.Mapping[k]
        id == NewChanId(k, v)
    IN  IF HasPrefix(v, <<"/">>)
        THEN LET dst == urlParse(HttpPrefix \o k) IN
             IF ~dst.ok THEN [acc EXCEPT !.err = "parse"]
             ELSE [acc EXCEPT
                     !.buckets = (k :> id) @@ acc.buckets,
                     !.chans = (id :> MakeChan(c.MaxConnsPerBackend)) @@ acc.chans,
                     !.backends = (k :> ReverseProxy(dst, UnixTransport(v)))
                                       @@ acc.backends]
        ELSE LET dst == urlParse(v) IN
             IF ~dst.ok THEN [acc EXCEPT !.err = "parse"]
             ELSE [acc EXCEPT
                     !.backends = (k :> ReverseProxy(dst, SharedTransport))
                                       @@ acc.backends]

\* one iteration of the loop body for key k, on the proxy under construction
LoopBody(c, k, acc) ==
    LET v == c.Mapping[k]
        id == NewChanId(k, v)
    IN  IF HasPrefix(v, <<"/">>)
        THEN LET dst == urlParse(HttpPrefix \o k) IN
             IF ~dst.ok THEN [acc EXCEPT !.err = "parse"]
             ELSE [acc EXCEPT
                     !.buckets = (k :> id) @@ acc.buckets,
                     !.chans = (id :> MakeChan(c.MaxConnsPerBackend)) @@ acc.chans,
                     !.backends = (k :> ReverseProxy(dst, UnixTransport(v)))
                                       @@ acc.backends]
        ELSE LET dst == urlParse(v) IN
             IF ~dst.ok THEN [acc EXCEPT !.err = "parse"]
             ELSE [acc EXCEPT
                     !.buckets = (k :> id) @@ acc.buckets,
                     !.chans = (id :> MakeChan(c.MaxConnsPerBackend)) @@ acc.chans,
                     !.backends = (k :> ReverseProxy(dst, SharedTransport))
                                       @@ acc.backends]

\* a loop that skips an item it cannot parse instead of returning
RECURSIVE RangeLoopSkipsBad(_, _, _, _)
RangeLoopSkipsBad(c, order, i, acc) ==
    IF i > Len(order) THEN acc
    ELSE LET next == LoopBody(c, order[i], acc)
         IN  IF next.err # Nil THEN RangeLoopSkipsBad(c, order, i + 1, acc)
             ELSE RangeLoopSkipsBad(c, order, i + 1, next)

RECURSIVE RangeLoop(_, _, _, _)
RangeLoop(c, order, i, acc) ==
    IF i > Len(order) THEN acc
    ELSE LET next == LoopBody(c, order[i], acc)
         IN  IF next.err # Nil THEN next
             ELSE RangeLoop(c, order, i + 1, next)

\* a nil *RevProxy
NilRevProxy == [nil |-> TRUE, backends |-> EmptyMap, buckets |-> EmptyMap]

\* what NewRevProxy returns when the loop ended in state acc
ReturnOf(acc) ==
    IF acc.err # Nil
    THEN [rp |-> NilRevProxy, err |-> acc.err, chans |-> EmptyMap]
    ELSE [rp |-> [nil |-> FALSE, backends |-> acc.backends,
                  buckets |-> acc.buckets],
          err |-> Nil, chans |-> acc.chans]

\* NewRevProxy(conf), the map being ranged over in the given order:
\* [rp, err, chans, maxIdle]; maxIdle is the value the shared transport's
\* MaxIdleConnsPerHost has afterwards
NewRevProxy(c, order, idle) ==
    IF validate(c) # Nil
    THEN [rp |-> NilRevProxy, err |-> validate(c), chans |-> EmptyMap,
          maxIdle |-> idle]
    ELSE LET acc0 == [backends |-> EmptyMap, buckets |-> EmptyMap,
                      chans |-> EmptyMap, err |-> Nil]
             r == ReturnOf(RangeLoop(c, order, 1, acc0))
         IN  [rp |-> r.rp, err |-> r.err, chans |-> r.chans,
              maxIdle |-> c.MaxKeepalivesPerBackend]

-----------------------------------------------------------------------------
(* Listen and the limited listener *)

NilListener == [nil |-> TRUE, cap |-> 0, sem |-> 0]

\* netutil.LimitListener(ln, n): a listener with a semaphore of n slots
LimitListener(n) == [nil |-> FALSE, cap |-> n, sem |-> 0]

\* Listen limiting to one connection fewer than asked
ListenOneLess(n, bindErr) ==
    IF n < 1 THEN [ln |-> NilListener, err |-> "maxconn should be positive",
                   bound |-> FALSE]
    ELSE IF bindErr THEN [ln |-> NilListener, err |-> "listen", bound |-> FALSE]
    ELSE [ln |-> LimitListener(n - 1), err |-> Nil, bound |-> TRUE]

\* Listen limiting to one connection more than asked
ListenOneMore(n, bindErr) ==
    IF n < 1 THEN [ln |-> NilListener, err |-> "maxconn should be positive",
                   bound |-> FALSE]
    ELSE IF bindErr THEN [ln |-> NilListener, err |-> "listen", bound |-> FALSE]
    ELSE [ln |-> LimitListener(n + 1), err |-> Nil, bound |-> TRUE]

\* Listen checking maxconn only after net.Listen has bound the socket
ListenBindsFirst(n, bindErr) ==
    IF bindErr THEN [ln |-> NilListener, err |-> "listen", bound |-> FALSE]
    ELSE IF n < 1 THEN [ln |-> NilListener, err |-> "maxconn should be positive",
                        bound |-> TRUE]
    ELSE [ln |-> LimitListener(n), err |-> Nil, bound |-> TRUE]

\* Listen(addr, maxconn); bindErr tells whether net.Listen fails; bound
\* tells whether a socket was bound
Listen(n, bindErr) ==
    IF n < 1 THEN [ln |-> NilListener, err |-> "maxconn should be positive",
                   bound |-> FALSE]
    ELSE IF bindErr THEN [ln |-> NilListener, err |-> "listen", bound |-> FALSE]
    ELSE [ln |-> LimitListener(n), err |-> Nil, bound |-> TRUE]

-----------------------------------------------------------------------------
(* Channels: the admission gate of a backend *)

\* a send that is ready only while a further slot stays free
CanSendKeepsOneFree(ch) == ch.len + 1 < ch.cap

\* a send that is taken to be ready on a full buffer too
CanSendWhenFull(ch) == ch.len <= ch.cap

\* is the send case of the select ready (room in the buffer)
CanSend(ch) == ch.len < ch.cap

\* bkt <- struct{}{}
Send(ch) == [ch EXCEPT !.len = @ + 1]

\* <-bkt
Recv(ch) == [ch EXCEPT !.len = @ - 1]

\* a select without default case: a plain blocking send
NoDefault == FALSE

\* the select of ServeHTTP has a default case
HasDefault == TRUE

\* a release done twice: deferred, and again after the call
ReleaseTwice(ch, outcome) == Recv(Recv(ch))

\* a release written after the call instead of deferred: skipped on panic
ReleaseUnlessPanic(ch, outcome) == IF outcome = "panic" THEN ch ELSE Recv(ch)

\* a release done only when forwarding succeeded
ReleaseOnSuccess(ch, outcome) == IF outcome = "ok" THEN Recv(ch) ELSE ch

\* the deferred func of ServeHTTP, run however p.ServeHTTP ends
Deferred(ch, outcome) == Recv(ch)

-----------------------------------------------------------------------------
(* RevProxy.ServeHTTP up to the point where it returns or calls p.ServeHTTP *)

\* ServeHTTP trying the gate before looking the backend up: the bucket of an
\* unknown host is a nil channel, whose send is never ready
DecideGateFirst(r, chs, h) ==
    IF h \notin DOMAIN r.buckets
    THEN [status |-> "503", forward |-> FALSE, chans |-> chs]
    ELSE LET bkt == r.buckets[h] IN
         IF CanSend(chs[bkt])
         THEN [status |-> "none", forward |-> TRUE,
               chans |-> [chs EXCEPT ![bkt] = Send(@)]]
         ELSE [status |-> "503", forward |-> FALSE, chans |-> chs]

\* ServeHTTP making a gate for a host it does not know
DecideLazyGate(r, chs, h) ==
    IF h \notin DOMAIN r.backends
    THEN [status |-> "502", forward |-> FALSE,
          chans |-> (h :> MakeChan(1)) @@ chs]
    ELSE LET bkt == r.buckets[h] IN
         IF CanSend(chs[bkt])
         THEN [status |-> "none", forward |-> TRUE,
               chans |-> [chs EXCEPT ![bkt] = Send(@)]]
         ELSE [status |-> "503", forward |-> FALSE, chans |-> chs]

\* ServeHTTP calling p.ServeHTTP after the select instead of inside its
\* send case: a rejected request is forwarded all the same
DecideForwardAnyway(r, chs, h) ==
    IF h \notin DOMAIN r.backends
    THEN [status |-> "502", forward |-> FALSE, chans |-> chs]
    ELSE LET bkt == r.buckets[h] IN
         IF CanSend(chs[bkt])
         THEN [status |-> "none", forward |-> TRUE,
               chans |-> [chs EXCEPT ![bkt] = Send(@)]]
         ELSE [status |-> "503", forward |-> TRUE, chans |-> chs]

\* [status, forward, chans]: the response written by ServeHTTP itself
\* ("none" when the request is forwarded), whether p.ServeHTTP is called,
\* and the channels afterwards
Decide(r, chs, h) ==
    IF h \notin DOMAIN r.backends
    THEN [status |-> "502", forward |-> FALSE, chans |-> chs]
    ELSE LET bkt == r.buckets[h] IN
         IF CanSend(chs[bkt])
         THEN [status |-> "none", forward |-> TRUE,
               chans |-> [chs EXCEPT ![bkt] = Send(@)]]
         ELSE [status |-> "503", forward |-> FALSE, chans |-> chs]

\* can ServeHTTP take its decision now: the lookup never waits, and the
\* select waits only when no case is ready
Ready(r, chs, h) ==
    IF h \notin DOMAIN r.backends THEN TRUE
    ELSE IF CanSend(chs[r.buckets[h]]) THEN TRUE
    ELSE HasDefault

-----------------------------------------------------------------------------
(* State machine *)

Conns == 1..NumConns

NoReq == [st |-> "none", host |-> <<>>, status |-> "none", fwd |-> 0]

\* the ways p.ServeHTTP can end
Outcomes == {"ok", "error", "panic", "canceled"}

InitWith(cs) ==
    /\ pc = "start"
    /\ conf \in cs
    /\ maxconn \in (-1)..MaxConnBound
    /\ rp = NilRevProxy
    /\ err = Nil
    /\ maxIdle = 0
    /\ chans = EmptyMap
    /\ sock = "unbound"
    /\ ln = NilListener
    /\ apc = "acquire"
    /\ conn = [c \in Conns |-> "new"]
    /\ req = [c \in Conns |-> NoReq]

\* main: proxy, err := NewRevProxy(conf); log.Fatal on error
MainNewRevProxy ==
    /\ pc = "start"
    /\ \E order \in Orders(DOMAIN conf.Mapping) :
         LET r == NewRevProxy(conf, order, maxIdle) IN
         /\ rp' = r.rp
         /\ err' = r.err
         /\ chans' = r.chans
         /\ maxIdle' = r.maxIdle
         /\ pc' = IF r.err # Nil THEN "fatal" ELSE "built"
    /\ UNCHANGED <<sock, conf, maxconn, ln, apc, conn, req>>

\* main: ln, err := Listen(addr, maxconn); log.Fatal on error; srv.Serve(ln)
MainListen ==
    /\ pc = "built"
    /\ \E bindErr \in BOOLEAN :
         LET r == Listen(maxconn, bindErr) IN
         /\ ln' = r.ln
         /\ sock' = IF r.bound THEN "bound" ELSE "unbound"
         /\ err' = r.err
         /\ pc' = IF r.err # Nil THEN "fatal" ELSE "serving"
    /\ UNCHANGED <<conf, maxconn, rp, maxIdle, chans, apc, conn, req>>

\* a client opens a TCP connection; it waits in the listen backlog.
\* Connections are numbered in the order they are opened.
Dial(c) ==
    /\ pc = "serving"
    /\ conn[c] = "new"
    /\ \A d \in 1..(c - 1) : conn[d] # "new"
    /\ conn' = [conn EXCEPT ![c] = "pending"]
    /\ UNCHANGED <<sock, pc, conf, maxconn, rp, err, maxIdle, chans, ln, apc, req>>

\* limitListener.Accept, first half: take a semaphore slot, waiting for one
AcceptAcquire ==
    /\ pc = "serving"
    /\ apc = "acquire"
    /\ ln.sem < ln.cap
    /\ ln' = [ln EXCEPT !.sem = @ + 1]
    /\ apc' = "accept"
    /\ UNCHANGED <<sock, pc, conf, maxconn, rp, err, maxIdle, chans, conn, req>>

\* limitListener.Accept, second half: the inner Accept returns the oldest
\* connection of the backlog, and srv.Serve starts its goroutine
AcceptConn(c) ==
    /\ pc = "serving"
    /\ apc = "accept"
    /\ conn[c] = "pending"
    /\ \A d \in 1..(c - 1) : conn[d] # "pending"
    /\ conn' = [conn EXCEPT ![c] = "live"]
    /\ apc' = "acquire"
    /\ UNCHANGED <<sock, pc, conf, maxconn, rp, err, maxIdle, chans, ln, req>>

\* the connection's goroutine reads the next request, for host h
RecvRequest(c, h) ==
    /\ conn[c] = "live"
    /\ req[c].st \in {"none", "done"}
    /\ req[c].status \notin {"panic", "canceled"}
    /\ req' = [req EXCEPT ![c] = [st |-> "dispatch", host |-> h,
                                  status |-> "none", fwd |-> 0]]
    /\ UNCHANGED <<sock, pc, conf, maxconn, rp, err, maxIdle, chans, ln, apc, conn>>

\* RevProxy.ServeHTTP from its entry to its return or to the call of
\* p.ServeHTTP
ServeHTTP(c) ==
    /\ conn[c] = "live"
    /\ req[c].st = "dispatch"
    /\ Ready(rp, chans, req[c].host)
    /\ LET d == Decide(rp, chans, req[c].host) IN
       /\ chans' = d.chans
       /\ req' = [req EXCEPT ![c] =
                    IF d.forward
                    THEN [@ EXCEPT !.st = "forwarding", !.status = d.status,
                                   !.fwd = @ + 1]
                    ELSE [@ EXCEPT !.st = "done", !.status = d.status,
                                   !.host = <<>>]]
    /\ UNCHANGED <<sock, pc, conf, maxconn, rp, err, maxIdle, ln, apc, conn>>

\* a dispatcher that forwards again when the backend failed
ForwardReturnRetry(c, outcome) ==
    /\ conn[c] = "live"
    /\ req[c].st = "forwarding"
    /\ IF outcome = "error" /\ req[c].fwd < 2
       THEN /\ req' = [req EXCEPT ![c] = [@ EXCEPT !.fwd = @ + 1]]
            /\ chans' = chans
       ELSE /\ chans' = [chans EXCEPT ![rp.buckets[req[c].host]] =
                                        Deferred(@, outcome)]
            /\ req' = [req EXCEPT ![c] = [@ EXCEPT !.st = "done",
                                                   !.status = outcome,
                                                   !.host = <<>>]]
    /\ UNCHANGED <<sock, pc, conf, maxconn, rp, err, maxIdle, ln, apc, conn>>

\* p.ServeHTTP ends (returns or panics) and the deferred func runs
ForwardReturn(c, outcome) ==
    /\ conn[c] = "live"
    /\ req[c].st = "forwarding"
    /\ chans' = [chans EXCEPT ![rp.buckets[req[c].host]] = Deferred(@, outcome)]
    /\ req' = [req EXCEPT ![c] = [@ EXCEPT !.st = "done", !.status = outcome,
                                           !.host = <<>>]]
    /\ UNCHANGED <<sock, pc, conf, maxconn, rp, err, maxIdle, ln, apc, conn>>

\* the connection's goroutine closes the connection (limitListenerConn.Close
\* frees the semaphore slot, once)
CloseConn(c) ==
    /\ conn[c] = "live"
    /\ req[c].st \in {"none", "done"}
    /\ conn' = [conn EXCEPT ![c] = "closed"]
    /\ req' = [req EXCEPT ![c] = NoReq]
    /\ ln' = [ln EXCEPT !.sem = @ - 1]
    /\ UNCHANGED <<sock, pc, conf, maxconn, rp, err, maxIdle, chans, apc>>

Next ==
    \/ MainNewRevProxy
    \/ MainListen
    \/ AcceptAcquire
    \/ \E c \in Conns : Dial(c)
    \/ \E c \in Conns : AcceptConn(c)
    \/ \E c \in Conns, h \in Hosts : RecvRequest(c, h)
    \/ \E c \in Conns : ServeHTTP(c)
    \/ \E c \in Conns, o \in Outcomes : ForwardReturn(c, o)
    \/ \E c \in Conns : CloseConn(c)

Init == InitWith(ServeConfigs)

Spec == Init /\ [][Next]_vars

\* the accept loop of srv.Serve is a goroutine of its own: the scheduler
\* runs it whenever it can take a step
AcceptFairness ==
    /\ WF_vars(AcceptAcquire)
    /\ \A c \in Conns : WF_vars(AcceptConn(c))

\* the limiter under a fair accept loop, for the valid configuration with
\* the single backend KeyA of capacity 1 (the backends play no part in the
\* accept loop) and every maxconn
InitFair ==
    InitWith({c \in ServeConfigs :
                /\ validate(c) = Nil
                /\ DOMAIN c.Mapping = {KeyA}
                /\ c.MaxConnsPerBackend = 1})

SpecFair == InitFair /\ [][Next]_vars /\ AcceptFairness

\* startup alone, over every configuration
InitBuild == InitWith(Configs)

NextBuild ==
    \/ MainNewRevProxy
    \/ MainListen

SpecBuild == InitBuild /\ [][NextBuild]_vars

-----------------------------------------------------------------------------
(* Vocabulary of the properties *)

Configured(h) == h \in DOMAIN rp.backends

\* the admission gate of routing key k
Gate(k) == chans[rp.buckets[k]]

Held(k) == Gate(k).len

Saturated(k) == Held(k) = conf.MaxConnsPerBackend

\* requests for routing key k admitted and not yet finished forwarding
InFlight(k) ==
    Cardinality({c \in Conns : req[c].st = "forwarding" /\ req[c].host = k})

\* the step is the decision of ServeHTTP for the request of connection c
Decides(c) == req[c].st = "dispatch" /\ req'[c].st # "dispatch"

Admitted(c) == Decides(c) /\ req'[c].st = "forwarding"

Rejected(c, code) ==
    Decides(c) /\ req'[c].st = "done" /\ req'[c].status = code

\* the step is the end of forwarding for the request of connection c
Completes(c) == req[c].st = "forwarding" /\ req'[c].st = "done"

Live == {c \in Conns : conn[c] = "live"}

TypeOK ==
    /\ pc \in {"start", "built", "serving", "fatal"}
    /\ conn \in [Conns -> {"new", "pending", "live", "closed"}]
    /\ \A c \in Conns : req[c].st \in {"none", "dispatch", "forwarding", "done"}

-----------------------------------------------------------------------------
(* C1: for every backend, in every reachable state, the number of slots    *)
(* held in its admission gate is between 0 and MaxConnsPerBackend.         *)

C1_HeldWithinCapacity ==
    \A k \in DOMAIN rp.buckets :
        /\ Held(k) >= 0
        /\ Held(k) <= conf.MaxConnsPerBackend

\* a gate of capacity 2 with both slots held
C1_Witness ==
    \E k \in DOMAIN rp.buckets :
        conf.MaxConnsPerBackend = 2 /\ Held(k) = 2

-----------------------------------------------------------------------------
(* C2: a backend whose gate has capacity N admits exactly N concurrent     *)
(* requests: never more than N are in flight, and a request decided while  *)
(* N admitted requests for its key are outstanding receives 503.           *)

C2_ExactlyNAdmitted ==
    /\ [](\A k \in DOMAIN rp.buckets : InFlight(k) <= conf.MaxConnsPerBackend)
    /\ [][\A c \in Conns :
            (/\ Decides(c)
             /\ Configured(req[c].host)
             /\ InFlight(req[c].host) = conf.MaxConnsPerBackend)
            => Rejected(c, "503")]_vars

\* one backend: two requests in flight on its gate of capacity 2, a third
\* answered 503
C2_Witness ==
    \E c \in Conns :
        /\ DOMAIN rp.buckets = {KeyA}
        /\ conf.MaxConnsPerBackend = 2
        /\ InFlight(KeyA) = 2
        /\ req[c].st = "done" /\ req[c].status = "503"

-----------------------------------------------------------------------------
(* C3: every admitted request releases its slot exactly once when          *)
(* forwarding completes, however it completes; a slot is never released by *)
(* any other step; once no admitted request is outstanding every gate      *)
(* holds 0 slots.                                                          *)

C3_ReleaseOnEveryPath ==
    /\ [][\A c \in Conns : \A k \in DOMAIN rp.buckets :
            (Completes(c) /\ req[c].host = k) =>
              Held(k)' = Held(k) - 1]_vars
    /\ [][\A k \in DOMAIN rp.buckets :
            Held(k)' < Held(k) =>
              \E c \in Conns : Completes(c) /\ req[c].host = k]_vars
    /\ []((\A c \in Conns : req[c].st # "forwarding") =>
              \A k \in DOMAIN rp.buckets : Held(k) = 0)

\* forwarding has ended by a panic, by a client disconnect and by a backend
\* error, and nothing is in flight
C3_Witness ==
    /\ \A c \in Conns : req[c].st # "forwarding"
    /\ \E c \in Conns : req[c].st = "done" /\ req[c].status = "panic"
    /\ \E c \in Conns : req[c].st = "done" /\ req[c].status = "canceled"
    /\ \E c \in Conns : req[c].st = "done" /\ req[c].status = "error"

-----------------------------------------------------------------------------
(* C4: a request whose host matches no routing key is always decided, ends *)
(* with 502 whatever the state of the gates, is never forwarded, and       *)
(* leaves every gate unchanged.                                            *)

C4_UnknownHost502 ==
    /\ [](\A c \in Conns :
            (req[c].st = "dispatch" /\ ~Configured(req[c].host))
            => ENABLED ServeHTTP(c))
    /\ [][\A c \in Conns :
            (Decides(c) /\ ~Configured(req[c].host))
            => /\ Rejected(c, "502")
               /\ req'[c].fwd = 0
               /\ chans' = chans]_vars

\* a request answered 502 while every gate is saturated
C4_Witness ==
    /\ pc = "serving"
    /\ \A k \in DOMAIN rp.buckets : Saturated(k)
    /\ \E c \in Conns :
         /\ req[c].st = "done" /\ req[c].status = "502"
         /\ req[c].fwd = 0

-----------------------------------------------------------------------------
(* C5: a request that finds its backend's gate saturated is answered 503,  *)
(* is not forwarded, and leaves the gate's held count unchanged.           *)

C5_SaturatedRejects ==
    [][\A c \in Conns :
         (/\ Decides(c)
          /\ Configured(req[c].host)
          /\ Saturated(req[c].host))
         => /\ Rejected(c, "503")
            /\ req'[c].fwd = 0
            /\ chans' = chans]_vars

\* one backend: a request answered 503, never forwarded, the gate still full
C5_Witness ==
    \E c \in Conns :
        /\ DOMAIN rp.buckets = {KeyA}
        /\ req[c].st = "done" /\ req[c].status = "503" /\ req[c].fwd = 0
        /\ Saturated(KeyA)

-----------------------------------------------------------------------------
(* C6: no request ever waits on a gate: whenever a request has reached the *)
(* dispatcher its decision step is enabled, whatever the other requests    *)
(* hold, and that one step admits it or rejects it.                        *)

C6_NeverWaits ==
    /\ [](\A c \in Conns : req[c].st = "dispatch" => ENABLED ServeHTTP(c))
    /\ [][\A c \in Conns :
            Decides(c) =>
              \/ Admitted(c)
              \/ Rejected(c, "502")
              \/ Rejected(c, "503")]_vars

\* one backend: a request at the dispatcher while the gate is full, after
\* another one was rejected there
C6_Witness ==
    \E c, d \in Conns :
        /\ DOMAIN rp.buckets = {KeyA}
        /\ req[c].st = "dispatch"
        /\ req[c].host = KeyA
        /\ Saturated(KeyA)
        /\ req[d].st = "done" /\ req[d].status = "503"

-----------------------------------------------------------------------------
(* C7: the release at the end of forwarding (success or backend error)     *)
(* leaves room for one more admission, and nothing leaks: a request        *)
(* decided when no request for its key is in flight is admitted, so on a   *)
(* gate of capacity 1 requests issued one at a time are all admitted, and  *)
(* never more than 1 is in flight.                                         *)

C7_ReleasePermitsAdmission ==
    /\ [][\A c \in Conns : \A k \in DOMAIN rp.buckets :
            (Completes(c) /\ req[c].host = k) => CanSend(Gate(k))']_vars
    /\ [][\A c \in Conns :
            (/\ Decides(c)
             /\ Configured(req[c].host)
             /\ InFlight(req[c].host) = 0)
            => Admitted(c)]_vars
    /\ [](\A k \in DOMAIN rp.buckets :
            conf.MaxConnsPerBackend = 1 => InFlight(k) <= 1)

\* one backend of capacity 1: two requests have completed, one with an
\* error, and a third one is in flight
C7_Witness ==
    \E c, d, e \in Conns :
        /\ DOMAIN rp.buckets = {KeyA}
        /\ conf.MaxConnsPerBackend = 1
        /\ req[c].st = "forwarding"
        /\ req[d].st = "done" /\ req[d].status = "error"
        /\ req[e].st = "done" /\ req[e].status = "ok"

-----------------------------------------------------------------------------
(* C8: two distinct routing keys have independent gates even when mapped   *)
(* to the same destination: the steps of a request for one key leave the   *)
(* other key's held count unchanged, and a request for a key whose own     *)
(* gate has room is admitted whatever the other gate holds.                *)

C8_IndependentGates ==
    /\ [](\A k1, k2 \in DOMAIN rp.buckets :
            k1 # k2 => rp.buckets[k1] # rp.buckets[k2])
    /\ [][\A c \in Conns : \A k \in DOMAIN rp.buckets :
            ((Decides(c) \/ Completes(c)) /\ req[c].host # k)
            => Held(k)' = Held(k)]_vars
    /\ [][\A c \in Conns :
            (/\ Decides(c)
             /\ Configured(req[c].host)
             /\ InFlight(req[c].host) < conf.MaxConnsPerBackend)
            => Admitted(c)]_vars

\* both keys map to the same destination, one gate is full and a request
\* for the other key is in flight
C8_Witness ==
    \E k1, k2 \in DOMAIN rp.buckets :
        /\ k1 # k2
        /\ conf.Mapping[k1] = conf.Mapping[k2]
        /\ Saturated(k1)
        /\ ~Saturated(k2)
        /\ InFlight(k2) = 1

-----------------------------------------------------------------------------
(* C9: a configuration with MaxConnsPerBackend < 1, or                     *)
(* MaxKeepalivesPerBackend < 1, or an empty Mapping makes validate return  *)
(* an error and NewRevProxy return an error and no proxy; with both limits *)
(* >= 1 and a non-empty Mapping validate returns no error.                 *)

InvalidConfig(c) ==
    \/ c.MaxConnsPerBackend < 1
    \/ c.MaxKeepalivesPerBackend < 1
    \/ DOMAIN c.Mapping = {}

C9_ValidateRejects ==
    /\ InvalidConfig(conf) <=> validate(conf) # Nil
    /\ (pc # "start" /\ InvalidConfig(conf)) =>
          /\ pc = "fatal"
          /\ err # Nil
          /\ rp.nil
          /\ rp.backends = EmptyMap

\* NewRevProxy has refused a configuration whose only defect is a zero
\* MaxConnsPerBackend
C9_Witness ==
    /\ pc = "fatal"
    /\ conf.MaxConnsPerBackend = 0
    /\ conf.MaxKeepalivesPerBackend >= 1
    /\ DOMAIN conf.Mapping # {}
    /\ rp.nil

-----------------------------------------------------------------------------
(* C10: the connections accepted and not yet closed never number more than *)
(* maxconn, and a semaphore slot is freed only by the close of a           *)
(* connection, never by the end of one of its requests.                    *)

C10_AcceptedWithinMaxconn ==
    /\ [](pc = "serving" => Cardinality(Live) <= maxconn)
    /\ [](pc # "serving" => Live = {})
    /\ [](pc = "serving" =>
            ln.sem = Cardinality(Live) + (IF apc = "accept" THEN 1 ELSE 0))
    /\ [][ln'.sem < ln.sem =>
            \E c \in Conns : conn[c] = "live" /\ conn'[c] = "closed"]_vars
    /\ [][\A c \in Conns :
            (Decides(c) \/ Completes(c)) => ln' = ln /\ conn' = conn]_vars

\* maxconn connections are live, one of them has finished a request and
\* still holds its slot, and a further connection waits to be accepted
C10_Witness ==
    /\ pc = "serving"
    /\ Cardinality(Live) = maxconn
    /\ ln.sem = maxconn
    /\ \E c \in Live : req[c].st = "done"
    /\ \E c \in Conns : conn[c] = "pending"

-----------------------------------------------------------------------------
(* C11: a connection attempt made while maxconn connections are live is    *)
(* never rejected by the limiter: a pending connection stays pending until *)
(* it is accepted, and, the accept loop being scheduled fairly, it is      *)
(* accepted provided live connections keep closing (again and again fewer  *)
(* than maxconn are live).                                                 *)

C11_PendingThenAccepted ==
    /\ [][\A c \in Conns :
            conn[c] = "pending" => conn'[c] \in {"pending", "live"}]_vars
    /\ \A c \in Conns :
         ([]<>(pc = "serving" /\ Cardinality(Live) < maxconn))
         => (conn[c] = "pending" ~> conn[c] = "live")

\* maxconn connections are live, one of them a connection dialed after the
\* first maxconn ones, accepted into the slot a closed connection has freed
C11_Witness ==
    /\ pc = "serving"
    /\ Cardinality(Live) = maxconn
    /\ \E c \in Live : c > maxconn
    /\ \E c \in Conns : conn[c] = "closed"

-----------------------------------------------------------------------------
(* C12: in a constructed proxy, the backend of a mapping item whose        *)
(* destination starts with "/" dials the unix socket at exactly that path, *)
(* whatever network and address it is asked for, and its target comes from *)
(* the routing key, not from parsing the destination; the backend of any   *)
(* other item has the parsed destination as target and the shared          *)
(* transport.                                                              *)

Networks == {"tcp", "unix"}

Addrs == {<<"a", ":", "9">>, <<"h", ":", "9">>, DestUnix}

C12_UnixSocketDialed ==
    ~rp.nil =>
      \A k \in DOMAIN conf.Mapping :
        LET v == conf.Mapping[k]
            p == rp.backends[k]
        IN  IF HasPrefix(v, <<"/">>)
            THEN /\ \A n \in Networks, a \in Addrs :
                      TransportDial(p.transport, n, a) = <<"unix", v>>
                 /\ p.target.Scheme = <<"h", "t", "t", "p">>
                 /\ p.target.Host = k
                 /\ p.target.Path = <<>>
            ELSE /\ p.target = urlParse(v)
                 /\ p.transport = SharedTransport
                 /\ \A n \in Networks, a \in Addrs :
                      TransportDial(p.transport, n, a) = <<n, a>>

\* a proxy built with one unix-socket backend and one TCP backend
C12_Witness ==
    /\ ~rp.nil
    /\ \E k1, k2 \in DOMAIN conf.Mapping :
         /\ conf.Mapping[k1] = DestUnix
         /\ rp.backends[k1].transport.kind = "unix"
         /\ conf.Mapping[k2] = DestTCP
         /\ rp.backends[k2].transport.kind = "shared"

-----------------------------------------------------------------------------
(* C13: when some mapping item has a destination that url.Parse rejects,   *)
(* NewRevProxy returns an error and no proxy, in whatever order the items  *)
(* are visited, and the process never serves.                              *)

Malformed(v) == ~HasPrefix(v, <<"/">>) /\ ~urlParse(v).ok

C13_MalformedAborts ==
    (pc # "start" /\ \E k \in DOMAIN conf.Mapping : Malformed(conf.Mapping[k]))
    => /\ pc = "fatal"
       /\ err # Nil
       /\ rp.nil
       /\ rp.backends = EmptyMap
       /\ rp.buckets = EmptyMap
       /\ chans = EmptyMap

\* NewRevProxy has refused an otherwise valid configuration with one
\* well-formed and one malformed destination
C13_Witness ==
    /\ pc = "fatal"
    /\ validate(conf) = Nil
    /\ rp.nil
    /\ \E k1, k2 \in DOMAIN conf.Mapping :
         /\ Malformed(conf.Mapping[k1])
         /\ conf.Mapping[k2] = DestTCP

-----------------------------------------------------------------------------
(* C14: every request ends in exactly one of forwarded, 502, 503, chosen   *)
(* by one decision step; a request is forwarded at most once, a forwarded  *)
(* request only ever completes, and a finished request is never taken up   *)
(* again by the dispatcher.                                                *)

C14_OneDecisionNoRetry ==
    /\ [][\A c \in Conns :
            Decides(c) =>
              \/ Admitted(c) /\ req'[c].fwd = 1 /\ req'[c].status = "none"
              \/ Rejected(c, "502") /\ req'[c].fwd = 0
              \/ Rejected(c, "503") /\ req'[c].fwd = 0]_vars
    /\ [](\A c \in Conns : req[c].fwd <= 1)
    /\ [][\A c \in Conns :
            req[c].st = "forwarding" =>
              \/ req'[c] = req[c]
              \/ Completes(c) /\ req'[c].fwd = 1
                              /\ req'[c].status \in Outcomes]_vars
    /\ [][\A c \in Conns :
            (req[c].st = "done" /\ req'[c] # req[c]) =>
              \/ req'[c].st = "dispatch" /\ req'[c].fwd = 0
              \/ conn'[c] = "closed"]_vars

\* one request was forwarded and failed, one was answered 502, one 503
C14_Witness ==
    \E c, d, e \in Conns :
        /\ req[c].st = "done" /\ req[c].status = "error" /\ req[c].fwd = 1
        /\ req[d].st = "done" /\ req[d].status = "502" /\ req[d].fwd = 0
        /\ req[e].st = "done" /\ req[e].status = "503" /\ req[e].fwd = 0

-----------------------------------------------------------------------------
(* C15: after a successful NewRevProxy the keys with a forwarding target,  *)
(* the keys with a gate and the keys of the Mapping are the same set, and  *)
(* every gate is its own empty channel of capacity MaxConnsPerBackend.     *)

C15_TablesMatchMapping ==
    (pc = "built" /\ ~rp.nil) =>
      /\ DOMAIN rp.backends = DOMAIN conf.Mapping
      /\ DOMAIN rp.buckets = DOMAIN conf.Mapping
      /\ DOMAIN rp.buckets # {}
      /\ \A k \in DOMAIN rp.buckets :
           /\ rp.buckets[k] \in DOMAIN chans
           /\ Gate(k).len = 0
           /\ Gate(k).cap = conf.MaxConnsPerBackend
      /\ Cardinality(DOMAIN chans) = Cardinality(DOMAIN conf.Mapping)

\* a proxy built from two mapping items, one of each kind
C15_Witness ==
    /\ pc = "built"
    /\ ~rp.nil
    /\ DOMAIN conf.Mapping = Keys
    /\ conf.Mapping[KeyA] = DestTCP
    /\ conf.Mapping[KeyB] = DestUnix
    /\ conf.MaxConnsPerBackend = 2

-----------------------------------------------------------------------------
(* C16: once the proxy is built no step adds, removes or replaces an entry *)
(* of the table of forwarding targets or of the table of gates, and no     *)
(* gate changes capacity.                                                  *)

C16_RoutingTableReadOnly ==
    [][(pc = "built" \/ pc = "serving") =>
         /\ rp' = rp
         /\ DOMAIN chans' = DOMAIN chans
         /\ \A id \in DOMAIN chans : chans'[id].cap = chans[id].cap]_vars

\* the table is intact while one request is in flight, one was answered 502
\* and one 503
C16_Witness ==
    /\ pc = "serving"
    /\ DOMAIN rp.backends = DOMAIN conf.Mapping
    /\ DOMAIN rp.buckets = DOMAIN conf.Mapping
    /\ \E c, d, e \in Conns :
         /\ req[c].st = "forwarding"
         /\ req[d].st = "done" /\ req[d].status = "502"
         /\ req[e].st = "done" /\ req[e].status = "503"

-----------------------------------------------------------------------------
(* C17: for every backend the held count equals the number of requests for *)
(* its key admitted and not yet finished, and a release always finds a     *)
(* slot to free.                                                           *)

C17_HeldEqualsInFlight ==
    /\ [](\A k \in DOMAIN rp.buckets : Held(k) = InFlight(k))
    /\ [][\A c \in Conns : \A k \in DOMAIN rp.buckets :
            (Completes(c) /\ req[c].host = k) =>
              /\ Held(k) >= 1
              /\ InFlight(k)' = InFlight(k) - 1
              /\ Held(k)' = InFlight(k)']_vars

\* two backends with one request in flight each, after a third request has
\* completed and released its slot
C17_Witness ==
    /\ DOMAIN rp.buckets = Keys
    /\ Held(KeyA) = 1 /\ InFlight(KeyA) = 1
    /\ Held(KeyB) = 1 /\ InFlight(KeyB) = 1
    /\ \E c \in Conns : req[c].st = "done" /\ req[c].status = "ok"

-----------------------------------------------------------------------------
(* C18: a request for a configured key is answered 503 only when its gate  *)
(* holds exactly MaxConnsPerBackend slots at the decision step; when fewer *)
(* are held it is admitted and forwarded.                                  *)

C18_NoSpuriousRejection ==
    /\ [][\A c \in Conns :
            Rejected(c, "503") =>
              /\ Configured(req[c].host)
              /\ Held(req[c].host) = conf.MaxConnsPerBackend]_vars
    /\ [][\A c \in Conns :
            (/\ Decides(c)
             /\ Configured(req[c].host)
             /\ Held(req[c].host) < conf.MaxConnsPerBackend)
            => Admitted(c) /\ req'[c].fwd = 1]_vars

\* two backends of capacity 1, each with a request in flight (the second
\* admitted while the other gate was full), and a request answered 503
C18_Witness ==
    /\ DOMAIN rp.buckets = Keys
    /\ conf.MaxConnsPerBackend = 1
    /\ InFlight(KeyA) = 1
    /\ InFlight(KeyB) = 1
    /\ \E c \in Conns : req[c].st = "done" /\ req[c].status = "503"

-----------------------------------------------------------------------------
(* C19: Listen called with maxconn < 1 returns an error and no listener    *)
(* without binding a socket, and the process then stops: it never serves   *)
(* and never accepts a connection.                                         *)

C19_ListenRejectsMaxconn ==
    /\ maxconn < 1 =>
         /\ sock = "unbound"
         /\ ln.nil
         /\ pc # "serving"
         /\ \A c \in Conns : conn[c] = "new"
    /\ (maxconn < 1 /\ pc = "fatal" /\ ~rp.nil) =>
         err = "maxconn should be positive"
    /\ (maxconn < 1 /\ ~rp.nil) => pc \in {"built", "fatal"}

\* the proxy was built, and Listen has refused a maxconn of 0
C19_Witness ==
    /\ maxconn = 0
    /\ ~rp.nil
    /\ pc = "fatal"
    /\ err = "maxconn should be positive"
    /\ sock = "unbound"

====
